---- MODULE Spec2Model ----
(***************************************************************************)
(* claude-hue: the usage-arbitration and light-update daemon               *)
(* (src/src/daemon/daemon.ts, src/src/daemon/usage.ts and the adapters of   *)
(* src/src/claude/api.ts), as a state machine of operating-system          *)
(* processes that share the PID marker, the usage log, the loopback port   *)
(* and the Hue bridge.                                                     *)
(*                                                                         *)
(* Numbers that are reals in the program (percentages, raw utilization)    *)
(* are fixed-point integers: the real r is the integer r * Scale.          *)
(* Times are milliseconds, as Date.now() gives them.                       *)
(***************************************************************************)
EXTENDS Integers, Sequences, FiniteSets, Bags, TLC

\* ------------------------------------------------------------------ bounds
NumProcs == 3            \* processes that may invoke start()
MaxClockSteps == 2       \* how many times the clock advances
MaxTicks == 2            \* timer callbacks of one daemon in flight at once
MaxCmds == 1             \* un-awaited updateLight calls of one daemon in flight
MaxLog == 1              \* lines the hook appends to the usage log
MaxLines == 3            \* lines of a usage log the functions are run on by themselves
MaxTrims == 2            \* trimLog calls in a row on one such log
MaxAppends == 2          \* runs of the hook beside those trimLog calls

Scale == 100 * 100       \* fixed point: 1.0 is Scale
Procs == 1..NumProcs
Daemon == CHOOSE p \in Procs : \A q \in Procs : p <= q   \* the process Spec follows

\* --------------------------------------------------------- program constants
USAGE_STALE_MS == 5 * 60 * 1000
ClockStep == USAGE_STALE_MS
MaxTime == MaxClockSteps * ClockStep

Null == [null |-> TRUE]
Num(v) == [num |-> v]    \* a number where the program may hold null instead
NoLight == 0 - 1             \* the bridge has applied no command yet
NoFile == 0              \* the PID marker does not exist
DeadPid == NumProcs + 1  \* the PID of a process that no longer exists
OtherProgram == NumProcs + 2 \* a program that is not claude-hue, as a port owner

\* The configuration the daemon runs with (types.ts ClaudeHueConfig): whether
\* config.claude.cookie and config.claude.orgId are set, usage.windowMs and
\* usage.maxPrompts.  A config.json that loadConfig cannot load is Null.
Configs ==
    { [cookie |-> c, windowMs |-> ClockStep, maxPrompts |-> 2] : c \in BOOLEAN }

Min(a, b) == IF a < b THEN a ELSE b
Max(a, b) == IF a > b THEN a ELSE b

RECURSIVE SeqMax(_)
SeqMax(s) ==
    IF Len(s) = 1 THEN s[1] ELSE Max(s[1], SeqMax(Tail(s)))

\* ------------------------------------------------------------- usage.ts
\* A log line is the timestamp it parses to, or NaN when new Date(line) is
\* invalid.  The log is [exists, lines].
NaN == -1

\* The text of a log file as split("\n") gives it: its lines, with EmptyLine
\* for "" (after the final newline, between two newlines, the whole of an
\* empty file).  A line of white space only is not empty and does not parse.
EmptyLine == -2
\* readFileSync(logPath, "utf-8").split("\n").filter(Boolean)
SplitLines(text) == SelectSeq(text, LAMBDA l : l # EmptyLine)
\* kept.join("\n") + (kept.length ? "\n" : ""), as split("\n") gives it back
JoinLines(kept) == kept \o <<EmptyLine>>

RecentEntries(lines, cutoff) ==
    SelectSeq(lines, LAMBDA ts : ts # NaN /\ ts >= cutoff)

\* JavaScript's count / maxPrompts for an integer count >= 0, in fixed point.
\* Division by 0 gives Infinity, and NaN for 0 / 0; NaN stands for itself
\* here as well (no quotient of the model is NaN: |maxPrompts| < Scale).
Infinity == Scale * Scale
Divide(count, maxPrompts) ==
    IF maxPrompts # 0 THEN (count * Scale) \div maxPrompts
    ELSE IF count = 0 THEN NaN ELSE Infinity

\* calculateUsage; Math.min(NaN, 1) is NaN.
calculateUsage(log, time, windowMs, maxPrompts) ==
    IF ~log.exists THEN [count |-> 0, percentage |-> 0]
    ELSE LET count == Len(RecentEntries(log.lines, time - windowMs))
             ratio == Divide(count, maxPrompts)
         IN  [count |-> count,
              percentage |-> IF ratio = NaN THEN NaN ELSE Min(ratio, Scale)]

\* Mutants of trimLog: entries are kept for one window only; and every call
\* drops the oldest line it would keep.
trimLogOneWindow(log, time, windowMs) ==
    IF ~log.exists THEN log
    ELSE [exists |-> TRUE, lines |-> RecentEntries(log.lines, time - windowMs)]

trimLogDropsFirst(log, time, windowMs) ==
    IF ~log.exists THEN log
    ELSE LET kept == RecentEntries(log.lines, time - windowMs * 2)
         IN  [exists |-> TRUE, lines |-> IF kept = <<>> THEN kept ELSE Tail(kept)]

trimLog(log, time, windowMs) ==
    IF ~log.exists THEN log
    ELSE [exists |-> TRUE, lines |-> RecentEntries(log.lines, time - windowMs * 2)]

\* ------------------------------------------------------------ payloads
\* A usage payload is the JSON object the usage API answers with: a sequence
\* (key order) of categories, each [type, key, raw, isStr]: the category's
\* name, the name of the field that holds its utilization, the value of
\* that field (fixed point) and whether the value is a JSON string.
NameIncludes(name, sub) ==
    CASE name = "five_hour" -> sub = "five_hour"
      [] name = "seven_day" -> sub = "seven_day"
      [] name = "seven_day_opus" -> sub = "seven_day"
      [] name = "extra_usage" -> sub = "extra"
      [] OTHER -> FALSE

AdapterKeys ==
    {"utilization", "percentUsed", "percent_used", "percentage", "usage_percentage"}
ExtensionKeys == {"utilization", "percentUsed", "percent_used", "percentage"}

\* api.ts toNumber over the model's entries: a number, or a numeric string.
toNumber(e) == IF e.key \in AdapterKeys THEN Num(e.raw) ELSE Null

\* Mutant of parseUsageEntry: a raw value of exactly 1 is divided by 100 too.
parseUsageEntryInclusive(e) ==
    LET rawPercent == toNumber(e)
    IN  IF rawPercent = Null THEN Null
        ELSE [type |-> e.type,
              percentUsed |-> IF rawPercent.num >= Scale THEN rawPercent.num \div 100
                              ELSE rawPercent.num]

parseUsageEntry(e) ==
    LET rawPercent == toNumber(e)
    IN  IF rawPercent = Null THEN Null
        ELSE [type |-> e.type,
              percentUsed |-> IF rawPercent.num > Scale THEN rawPercent.num \div 100
                              ELSE rawPercent.num]

RECURSIVE ParseEntries(_)
ParseEntries(raw) ==
    IF raw = <<>> THEN <<>>
    ELSE LET limit == parseUsageEntry(raw[1])
         IN  (IF limit = Null THEN <<>> ELSE <<limit>>) \o ParseEntries(Tail(raw))

Find(limits, sub) ==
    LET hits == SelectSeq(limits, LAMBDA l : NameIncludes(l.type, sub))
    IN  IF hits = <<>> THEN Null ELSE hits[1]

RECURSIVE Percents(_)
Percents(limits) ==
    IF limits = <<>> THEN <<>>
    ELSE <<limits[1].percentUsed>> \o Percents(Tail(limits))

\* Mutant of parseUsageResponse: the seven-day category is preferred.
parseUsageResponseWeeklyFirst(raw) ==
    LET limits == ParseEntries(raw)
        fiveHour == Find(limits, "five_hour")
        sevenDay == Find(limits, "seven_day")
        primary == IF sevenDay # Null THEN sevenDay ELSE fiveHour
        limitsForHighest ==
            IF primary # Null THEN <<primary>>
            ELSE SelectSeq(limits, LAMBDA l : ~NameIncludes(l.type, "extra"))
    IN  [limits |-> limits,
         highestPercent |-> IF limitsForHighest # <<>>
                            THEN SeqMax(Percents(limitsForHighest)) ELSE 0]

parseUsageResponse(raw) ==
    LET limits == ParseEntries(raw)
        fiveHour == Find(limits, "five_hour")
        sevenDay == Find(limits, "seven_day")
        primary == IF fiveHour # Null THEN fiveHour ELSE sevenDay
        limitsForHighest ==
            IF primary # Null THEN <<primary>>
            ELSE SelectSeq(limits, LAMBDA l : ~NameIncludes(l.type, "extra"))
    IN  [limits |-> limits,
         highestPercent |-> IF limitsForHighest # <<>>
                            THEN SeqMax(Percents(limitsForHighest)) ELSE 0]

\* daemon.ts parseExtensionUsage: typeof v.<key> === "number" only, percent
\* scale inside, the highest category wins.
ExtensionPct(e) ==
    IF e.key \in ExtensionKeys /\ ~e.isStr
    THEN Num(IF e.raw > Scale THEN e.raw ELSE e.raw * 100)
    ELSE Null

RECURSIVE ExtensionEntries(_)
ExtensionEntries(data) ==
    IF data = <<>> THEN <<>>
    ELSE LET pct == ExtensionPct(data[1])
         IN  (IF pct = Null THEN <<>> ELSE <<pct.num>>) \o ExtensionEntries(Tail(data))

\* Mutant of parseExtensionUsage: an object without entries counts as 0 %.
parseExtensionUsageZero(data) ==
    LET entries == ExtensionEntries(data)
    IN  IF entries = <<>> THEN [percentage |-> 0]
        ELSE [percentage |-> SeqMax(entries) \div 100]

parseExtensionUsage(data) ==
    LET entries == ExtensionEntries(data)
    IN  IF entries = <<>> THEN Null
        ELSE [percentage |-> SeqMax(entries) \div 100]

Cat(type, raw) == [type |-> type, key |-> "utilization", raw |-> raw, isStr |-> FALSE]

\* What a remote adapter can answer with in the daemon specifications: an
\* object without categories, and one with a session utilization of 40 %.
AdapterPayloads == { <<>>, <<Cat("five_hour", 40 * Scale)>> }
\* What the extension can push: a session utilization of 80 %, and an object
\* without any numeric field (answered 400).
PushPayloads == { <<Cat("five_hour", 80 * Scale)>>, <<>> }
\* A request body JSON.parse rejects.
BadJson == [parses |-> FALSE, data |-> <<>>]
PushBodies == {BadJson} \cup { [parses |-> TRUE, data |-> d] : d \in PushPayloads }

\* ------------------------------------------------------------ hue/light.ts
\* What the bridge answers to the PUT of a light state: the HTTP status and
\* the kind of body, or Unreachable when hueFetch rejects.
Unreachable == [status |-> 0, body |-> "unreachable"]
BridgeAnswers ==
    {Unreachable} \cup
    { [status |-> st, body |-> b] :
        st \in {200, 500}, b \in {"successList", "errorList", "errorObject", "notJson"} }
\* The answers the daemon specifications draw from.
BridgeResponses ==
    { Unreachable, [status |-> 200, body |-> "successList"],
      [status |-> 200, body |-> "errorList"], [status |-> 500, body |-> "errorObject"] }

\* The bridge changed the light: the request arrived and every entry of the
\* answer is a success.
BridgeApplies(resp) ==
    resp # Unreachable /\ resp.status = 200 /\ resp.body = "successList"

\* setLightColor: "throw" when hueFetch or res.json() rejects or the answer
\* is an array with an error entry, "ok" otherwise.
setLightColor(resp) ==
    IF resp = Unreachable THEN "throw"
    ELSE IF resp.body = "notJson" THEN "throw"
    ELSE IF resp.body = "errorList" THEN "throw"
    ELSE "ok"

\* ------------------------------------------------- hue/light.ts, the colours
\* A number the functions below return: Num(v), or NotANumber for NaN.
NotANumber == [nan |-> TRUE]

\* Math.max(0, Math.min(1, t)); NaN for NaN.
Clamp01(t) == IF t = NaN THEN NaN ELSE Max(0, Min(Scale, t))

\* start + (end - start) * clamped, exactly: with t in units of 1 / Scale
\* the result is in units of 1 / Scale of the unit of start and end.
Lerp(start, end, t) ==
    LET clamped == Clamp01(t)
    IN  IF clamped = NaN THEN NotANumber
        ELSE Num(start * Scale + (end - start) * clamped)

\* Math.round of v / d (d > 0): the nearest integer, a half goes up.
MathRound(v, d) == (2 * v + d) \div (2 * d)

\* interpolateColor: chromaticity in units of 1 / Scale, the result in units
\* of 1 / (Scale * Scale).
interpolateColor(start, end, t) ==
    [x |-> Lerp(start.x, end.x, t), y |-> Lerp(start.y, end.y, t)]

\* interpolateBrightness: brightness in units of 1.
interpolateBrightness(start, end, t) ==
    LET v == Lerp(start, end, t)
    IN  IF v = NotANumber THEN NotANumber ELSE Num(MathRound(v.num, Scale))

\* setLightColor line 17, the `bri` of the command:
\* Math.max(1, Math.min(254, Math.round((brightness / 100) * 254))).
\* Math.round, Math.min and Math.max give NaN for NaN, which
\* JSON.stringify writes as null.
bri(brightness) ==
    IF brightness = NotANumber THEN NotANumber
    ELSE Num(Max(1, Min(254, MathRound(brightness.num * 254, 100))))

\* ------------------------------------------------------------------ state
VARIABLES
    now,          \* Date.now()
    pidFile,      \* PID_PATH: NoFile, or the PID written in it
    config,       \* CONFIG_PATH as loadConfig reads it: a configuration, or Null
    usageLog,     \* USAGE_LOG_PATH: [exists, lines]
    portOwner,    \* the process bound to 127.0.0.1:EXTENSION_PORT, or 0
    light,        \* the percentage of the command the bridge applied last, or NoLight
    pc,           \* per process: where startDaemon stands
    exitCode,     \* per process: how it ended ("none" while it has not)
    running,      \* per process: daemon.ts `running`
    pollTimer,    \* per process: daemon.ts `pollTimer` ("null", "active", "cleared")
    watcher,      \* per process: daemon.ts `watcher` ("null", "armed", "closed")
    httpServer,   \* per process: daemon.ts `httpServer` ("null", "listening", "failed", "closed")
    remoteUsage,  \* per process: daemon.ts `remoteUsage` (Null or a snapshot)
    sigPending,   \* per process: a SIGINT/SIGTERM its handler has not run for yet
    tick,         \* per process: the bag of poll callbacks in flight
    cmds,         \* per process: the bag of other setLightColor calls in flight
    watchEvt,     \* per process: a change of the log its watcher has not reported yet
    nShutdown,    \* per process: how often shutdown's clean-up ran (observation)
    reply,        \* the last answer given: POST /usage's status, or stop's report
    input,        \* the argument of the function under test (SpecPure)
    output        \* what the function under test returned for it, or Null

vars == <<now, pidFile, config, usageLog, portOwner, light, pc, exitCode, running,
          pollTimer, watcher, httpServer, remoteUsage, sigPending, tick, cmds,
          watchEvt, nShutdown, reply, input, output>>

One(x) == SetToBag({x})

\* The processes that exist: invoked and not yet gone.
ProcessAlive(pid) == pid \in Procs /\ pc[pid] \notin {"idle", "exited"}
\* The positions at which startDaemon has returned to the event loop, so that
\* the process's callbacks run.
AwaitStates == {"startupOauth", "startupCookie", "initApply", "loop"}

InitDaemon ==
    /\ now = 0
    /\ pidFile \in {NoFile, DeadPid}
    /\ config \in Configs \cup {Null}
    /\ usageLog \in {[exists |-> FALSE, lines |-> <<>>], [exists |-> TRUE, lines |-> <<>>]}
    /\ portOwner = 0
    /\ light = NoLight
    /\ pc = [p \in Procs |-> "idle"]
    /\ exitCode = [p \in Procs |-> "none"]
    /\ running = [p \in Procs |-> FALSE]
    /\ pollTimer = [p \in Procs |-> "null"]
    /\ watcher = [p \in Procs |-> "null"]
    /\ httpServer = [p \in Procs |-> "null"]
    /\ remoteUsage = [p \in Procs |-> Null]
    /\ sigPending = [p \in Procs |-> FALSE]
    /\ tick = [p \in Procs |-> EmptyBag]
    /\ cmds = [p \in Procs |-> EmptyBag]
    /\ watchEvt = [p \in Procs |-> FALSE]
    /\ nShutdown = [p \in Procs |-> 0]
    /\ reply = "none"

Init ==
    /\ InitDaemon
    /\ input = Null
    /\ output = Null

\* --------------------------------------------------------------- daemon.ts
removePid(file) == NoFile

\* Mutants of getUsagePercentage: the snapshot served whatever its age, and
\* the snapshot served up to and including the threshold.
getUsagePercentageAnyAge(ru, log, time, cfg) ==
    IF ru # Null
    THEN [percentage |-> ru.percentage, source |-> ru.source]
    ELSE [percentage |-> calculateUsage(log, time, cfg.windowMs, cfg.maxPrompts).percentage,
          source |-> "local"]

getUsagePercentageInclusive(ru, log, time, cfg) ==
    IF ru # Null /\ time - ru.receivedAt <= USAGE_STALE_MS
    THEN [percentage |-> ru.percentage, source |-> ru.source]
    ELSE [percentage |-> calculateUsage(log, time, cfg.windowMs, cfg.maxPrompts).percentage,
          source |-> "local"]

\* getUsagePercentage: the snapshot while it is recent, else the local count.
getUsagePercentage(ru, log, time, cfg) ==
    IF ru # Null /\ time - ru.receivedAt < USAGE_STALE_MS
    THEN [percentage |-> ru.percentage, source |-> ru.source]
    ELSE [percentage |-> calculateUsage(log, time, cfg.windowMs, cfg.maxPrompts).percentage,
          source |-> "local"]

Throw == [throw |-> TRUE]

\* The snapshot a fetch leaves: written when the adapter answered with at
\* least one limit; `out` is "throw" or the adapter's ClaudeUsageResponse.
Fetched(ru, out, source, time) ==
    IF out # Throw /\ out.limits # <<>>
    THEN [percentage |-> out.highestPercent, receivedAt |-> time, source |-> source]
    ELSE ru

FetchOutcomes == {Throw} \cup { parseUsageResponse(raw) : raw \in AdapterPayloads }
OutcomeName(out) ==
    IF out = Throw THEN "throw" ELSE IF out.limits = <<>> THEN "empty" ELSE "data"

\* The process ends: the operating system releases its port, and what it had
\* in flight is gone with it.
Exits(p, code) ==
    /\ pc' = [pc EXCEPT ![p] = "exited"]
    /\ exitCode' = [exitCode EXCEPT ![p] = code]
    /\ portOwner' = IF portOwner = p THEN 0 ELSE portOwner
    /\ tick' = [tick EXCEPT ![p] = EmptyBag]
    /\ cmds' = [cmds EXCEPT ![p] = EmptyBag]
    /\ watchEvt' = [watchEvt EXCEPT ![p] = FALSE]
    /\ sigPending' = [sigPending EXCEPT ![p] = FALSE]

\* Mutant of updateLight: the command is made for 0 % whatever resolves.
updateLightFrozen(p, ru, by) ==
    LET r == getUsagePercentage(ru, usageLog, now, config)
    IN  [percentage |-> 0, source |-> r.source, by |-> by]

\* updateLight up to its await: resolve, interpolate, send the command.
\* `by` is who awaits the setLightColor call: "init" (startDaemon), "tick" (a
\* poll callback) or "async" (nobody: the push handler and the watch callback
\* do not await it).
updateLight(p, ru, by) ==
    LET r == getUsagePercentage(ru, usageLog, now, config)
    IN  [percentage |-> r.percentage, source |-> r.source, by |-> by]

\* ---------------------------------------------------------- startDaemon
\* Mutant of StartCheck: every marker is taken for a stale one.
StartCheckNeverRefuses(p) ==
    /\ pc[p] = "idle"
    /\ pc' = [pc EXCEPT ![p] = IF pidFile = NoFile THEN "load" ELSE "rmStale"]
    /\ UNCHANGED <<exitCode, portOwner, tick, cmds, watchEvt, sigPending>>
    /\ UNCHANGED <<now, pidFile, config, usageLog, light, running, pollTimer, watcher,
                   httpServer, remoteUsage, nShutdown>>
    /\ UNCHANGED <<reply, input, output>>

\* startDaemon lines 291-294 with isDaemonRunning's readPid and kill(pid, 0):
\* no marker: go on; a live PID: refuse with status 1; a dead PID: remove it.
StartCheck(p) ==
    /\ pc[p] = "idle"
    /\ IF pidFile # NoFile /\ ProcessAlive(pidFile)
       THEN /\ Exits(p, "1")
       ELSE /\ pc' = [pc EXCEPT ![p] = IF pidFile = NoFile THEN "load" ELSE "rmStale"]
            /\ UNCHANGED <<exitCode, portOwner, tick, cmds, watchEvt, sigPending>>
    /\ UNCHANGED <<now, pidFile, config, usageLog, light, running, pollTimer, watcher,
                   httpServer, remoteUsage, nShutdown>>
    /\ UNCHANGED <<reply, input, output>>

\* isDaemonRunning's catch: removePid(), whatever the marker holds by now.
StartRemoveStale(p) ==
    /\ pc[p] = "rmStale"
    /\ pidFile' = removePid(pidFile)
    /\ pc' = [pc EXCEPT ![p] = "load"]
    /\ UNCHANGED <<now, config, usageLog, portOwner, light, exitCode, running, pollTimer,
                   watcher, httpServer, remoteUsage, sigPending, tick, cmds, watchEvt,
                   nShutdown>>
    /\ UNCHANGED <<reply, input, output>>

\* fetchUsageOnStartup from its cookie branch on, then the initial
\* updateLight up to its await.  `ru` is the snapshot so far.
StartupCookieStage(p, ru) ==
    IF config.cookie
    THEN /\ pc' = [pc EXCEPT ![p] = "startupCookie"]
         /\ cmds' = cmds
    ELSE LET c == updateLight(p, ru, "init")
         IN  /\ pc' = [pc EXCEPT ![p] = "initApply"]
             /\ cmds' = [cmds EXCEPT ![p] = @ (+) One(c)]

\* startDaemon lines 296-310: loadConfig (throws without a configuration),
\* writePid, running = true, startHttpServer, fetchUsageOnStartup up to its
\* first await.
\* Mutant of StartLoadFail: the marker is written before the configuration
\* is loaded.
StartLoadFailAfterPid(p) ==
    /\ pc[p] = "load"
    /\ config = Null
    /\ pidFile' = p
    /\ Exits(p, "1")
    /\ UNCHANGED <<now, config, usageLog, light, running, pollTimer, watcher,
                   httpServer, remoteUsage, nShutdown>>
    /\ UNCHANGED <<reply, input, output>>

StartLoadFail(p) ==
    /\ pc[p] = "load"
    /\ config = Null
    /\ Exits(p, "1")
    /\ UNCHANGED <<now, pidFile, config, usageLog, light, running, pollTimer, watcher,
                   httpServer, remoteUsage, nShutdown>>
    /\ UNCHANGED <<reply, input, output>>

\* Mutant of StartLoad: a port that is in use ends the start with status 1.
StartLoadBindFatal(p) ==
    /\ pc[p] = "load"
    /\ config # Null
    /\ pidFile' = p
    /\ IF portOwner = 0
       THEN /\ running' = [running EXCEPT ![p] = TRUE]
            /\ httpServer' = [httpServer EXCEPT ![p] = "listening"]
            /\ portOwner' = p
            /\ \E oauthToken \in BOOLEAN :
                  IF oauthToken
                  THEN /\ pc' = [pc EXCEPT ![p] = "startupOauth"]
                       /\ cmds' = cmds
                  ELSE StartupCookieStage(p, remoteUsage[p])
            /\ UNCHANGED <<exitCode, sigPending, tick, watchEvt>>
       ELSE /\ Exits(p, "1")
            /\ UNCHANGED <<running, httpServer>>
    /\ UNCHANGED <<now, config, usageLog, light, pollTimer, watcher, remoteUsage, nShutdown>>
    /\ UNCHANGED <<reply, input, output>>

StartLoad(p) ==
    /\ pc[p] = "load"
    /\ config # Null
    /\ pidFile' = p
    /\ running' = [running EXCEPT ![p] = TRUE]
    /\ httpServer' = [httpServer EXCEPT ![p] = IF portOwner = 0 THEN "listening" ELSE "failed"]
    /\ portOwner' = IF portOwner = 0 THEN p ELSE portOwner
    /\ \E oauthToken \in BOOLEAN :
          IF oauthToken
          THEN /\ pc' = [pc EXCEPT ![p] = "startupOauth"]
               /\ cmds' = cmds
          ELSE StartupCookieStage(p, remoteUsage[p])
    /\ UNCHANGED <<now, config, usageLog, light, exitCode, pollTimer, watcher, remoteUsage,
                   sigPending, tick, watchEvt, nShutdown>>
    /\ UNCHANGED <<reply, input, output>>

\* Mutant of StartupOauthSettles: the cookie fetch follows even when the
\* OAuth fetch gave data.
StartupOauthSettlesThenCookie(p, out) ==
    /\ pc[p] = "startupOauth"
    /\ LET ru == Fetched(remoteUsage[p], out, "oauth", now)
       IN  /\ remoteUsage' = [remoteUsage EXCEPT ![p] = ru]
           /\ StartupCookieStage(p, ru)
    /\ UNCHANGED <<now, pidFile, config, usageLog, portOwner, light, exitCode, running,
                   pollTimer, watcher, httpServer, sigPending, tick, watchEvt, nShutdown>>
    /\ UNCHANGED <<reply, input, output>>

\* fetchUsageOnStartup lines 212-232: the OAuth fetch settles with `out`.
StartupOauthSettles(p, out) ==
    /\ pc[p] = "startupOauth"
    /\ LET ru == Fetched(remoteUsage[p], out, "oauth", now)
       IN  /\ remoteUsage' = [remoteUsage EXCEPT ![p] = ru]
           /\ IF OutcomeName(out) = "data"
              THEN LET c == updateLight(p, ru, "init")
                   IN  /\ pc' = [pc EXCEPT ![p] = "initApply"]
                       /\ cmds' = [cmds EXCEPT ![p] = @ (+) One(c)]
              ELSE StartupCookieStage(p, ru)
    /\ UNCHANGED <<now, pidFile, config, usageLog, portOwner, light, exitCode, running,
                   pollTimer, watcher, httpServer, sigPending, tick, watchEvt, nShutdown>>
    /\ UNCHANGED <<reply, input, output>>

StartupOauthDone(p) == \E out \in FetchOutcomes : StartupOauthSettles(p, out)

\* fetchUsageOnStartup lines 236-256: the cookie fetch settles with `out`.
StartupCookieSettles(p, out) ==
    /\ pc[p] = "startupCookie"
    /\ LET ru == Fetched(remoteUsage[p], out, "api", now)
           c == updateLight(p, ru, "init")
       IN  /\ remoteUsage' = [remoteUsage EXCEPT ![p] = ru]
           /\ pc' = [pc EXCEPT ![p] = "initApply"]
           /\ cmds' = [cmds EXCEPT ![p] = @ (+) One(c)]
    /\ UNCHANGED <<now, pidFile, config, usageLog, portOwner, light, exitCode, running,
                   pollTimer, watcher, httpServer, sigPending, tick, watchEvt, nShutdown>>
    /\ UNCHANGED <<reply, input, output>>

StartupCookieDone(p) == \E out \in FetchOutcomes : StartupCookieSettles(p, out)

\* The `watcher` variable after lines 316-324 or 388-396: watch() is called
\* when no watcher is held and the log exists; `ok` says whether it returned
\* a watcher (TRUE) or threw (FALSE, the variable stays null).
\* `watcher = watch(...)` carried out while the variable holds w: over an
\* armed watcher it would leave two of them open ("two").
Assign(w) == IF w = "armed" THEN "two" ELSE "armed"

watch(w, log, ok) ==
    IF w = "null" /\ log.exists /\ ok THEN Assign(w) ELSE w

\* The outcomes watch() can have at lines 316-324 or 388-396; where it is not
\* called nothing throws.
WatchOutcomes(w, log) == IF w = "null" /\ log.exists THEN BOOLEAN ELSE {TRUE}

Armed(w, log) == { watch(w, log, ok) : ok \in WatchOutcomes(w, log) }

\* startDaemon lines 313-412: the initial setLightColor settles (a failure is
\* logged); then the watcher, the timer and the signal handlers.
InitApplyArms(p, resp, ok) ==
    /\ pc[p] = "initApply"
    /\ \E c \in BagToSet(cmds[p]) :
          /\ c.by = "init"
          /\ cmds' = [cmds EXCEPT ![p] = @ (-) One(c)]
          /\ light' = IF BridgeApplies(resp) THEN c.percentage ELSE light
    /\ watcher' = [watcher EXCEPT ![p] = watch(@, usageLog, ok)]
    /\ pollTimer' = [pollTimer EXCEPT ![p] = "active"]
    /\ pc' = [pc EXCEPT ![p] = "loop"]
    /\ UNCHANGED <<now, pidFile, config, usageLog, portOwner, exitCode, running,
                   httpServer, remoteUsage, sigPending, tick, watchEvt, nShutdown>>
    /\ UNCHANGED <<reply, input, output>>

InitApplySettles(p, resp) ==
    \E ok \in WatchOutcomes(watcher[p], usageLog) : InitApplyArms(p, resp, ok)

InitApplyDone(p) == \E resp \in BridgeResponses : InitApplySettles(p, resp)

\* ------------------------------------------------------- signals, shutdown
\* A SIGINT or SIGTERM reaches process q.  Once startDaemon has registered
\* its handlers (lines 411-412) the handler runs on a later turn of the event
\* loop; before that the signal's default action ends the process at once.
processKill(q) ==
    IF pc[q] = "loop"
    THEN /\ sigPending' = [sigPending EXCEPT ![q] = TRUE]
         /\ UNCHANGED <<pc, exitCode, portOwner, tick, cmds, watchEvt>>
    ELSE Exits(q, "signal")

Signal(p) ==
    /\ ProcessAlive(p)
    /\ processKill(p)
    /\ UNCHANGED <<now, pidFile, config, usageLog, light, running, pollTimer, watcher,
                   httpServer, remoteUsage, nShutdown>>
    /\ UNCHANGED <<reply, input, output>>

\* Mutant of shutdown: the clean-up without process.exit(0).
shutdownNoExit(p) ==
    /\ pc[p] = "loop"
    /\ sigPending[p]
    /\ IF ~running[p]
       THEN /\ sigPending' = [sigPending EXCEPT ![p] = FALSE]
            /\ UNCHANGED <<pidFile, pc, exitCode, portOwner, tick, cmds, watchEvt, running,
                           pollTimer, watcher, httpServer, nShutdown>>
       ELSE /\ running' = [running EXCEPT ![p] = FALSE]
            /\ pollTimer' = [pollTimer EXCEPT ![p] = IF @ = "null" THEN @ ELSE "cleared"]
            /\ watcher' = [watcher EXCEPT ![p] = IF @ = "null" THEN @ ELSE "closed"]
            /\ httpServer' = [httpServer EXCEPT ![p] = IF @ = "null" THEN @ ELSE "closed"]
            /\ pidFile' = removePid(pidFile)
            /\ nShutdown' = [nShutdown EXCEPT ![p] = @ + 1]
            /\ sigPending' = [sigPending EXCEPT ![p] = FALSE]
            /\ portOwner' = IF portOwner = p THEN 0 ELSE portOwner
            /\ UNCHANGED <<pc, exitCode, tick, cmds, watchEvt>>
    /\ UNCHANGED <<now, config, usageLog, light, remoteUsage>>
    /\ UNCHANGED <<reply, input, output>>

\* Mutant of shutdown: the clean-up alone, `running` left set and no exit.
shutdownCleanupOnly(p) ==
    /\ pc[p] = "loop"
    /\ sigPending[p]
    /\ IF ~running[p]
       THEN /\ sigPending' = [sigPending EXCEPT ![p] = FALSE]
            /\ UNCHANGED <<pidFile, pc, exitCode, portOwner, tick, cmds, watchEvt, running,
                           pollTimer, watcher, httpServer, nShutdown>>
       ELSE /\ running' = running
            /\ pollTimer' = [pollTimer EXCEPT ![p] = IF @ = "null" THEN @ ELSE "cleared"]
            /\ watcher' = [watcher EXCEPT ![p] = IF @ = "null" THEN @ ELSE "closed"]
            /\ httpServer' = [httpServer EXCEPT ![p] = IF @ = "null" THEN @ ELSE "closed"]
            /\ pidFile' = removePid(pidFile)
            /\ nShutdown' = [nShutdown EXCEPT ![p] = @ + 1]
            /\ sigPending' = [sigPending EXCEPT ![p] = FALSE]
            /\ portOwner' = IF portOwner = p THEN 0 ELSE portOwner
            /\ UNCHANGED <<pc, exitCode, tick, cmds, watchEvt>>
    /\ UNCHANGED <<now, config, usageLog, light, remoteUsage>>
    /\ UNCHANGED <<reply, input, output>>

\* shutdown, lines 400-409.
shutdown(p) ==
    /\ pc[p] = "loop"
    /\ sigPending[p]
    /\ IF ~running[p]
       THEN /\ sigPending' = [sigPending EXCEPT ![p] = FALSE]
            /\ UNCHANGED <<pidFile, pc, exitCode, portOwner, tick, cmds, watchEvt, running,
                           pollTimer, watcher, httpServer, nShutdown>>
       ELSE /\ running' = [running EXCEPT ![p] = FALSE]
            /\ pollTimer' = [pollTimer EXCEPT ![p] = IF @ = "null" THEN @ ELSE "cleared"]
            /\ watcher' = [watcher EXCEPT ![p] = IF @ = "null" THEN @ ELSE "closed"]
            /\ httpServer' = [httpServer EXCEPT ![p] = IF @ = "null" THEN @ ELSE "closed"]
            /\ pidFile' = removePid(pidFile)
            /\ nShutdown' = [nShutdown EXCEPT ![p] = @ + 1]
            /\ Exits(p, "0")
    /\ UNCHANGED <<now, config, usageLog, light, remoteUsage>>
    /\ UNCHANGED <<reply, input, output>>

\* Mutant of stopDaemon: the marker is removed and no signal is sent.
stopDaemonNoSignal ==
    /\ pidFile' = IF pidFile = NoFile THEN pidFile ELSE removePid(pidFile)
    /\ reply' = IF pidFile = NoFile THEN "no daemon"
                ELSE IF ProcessAlive(pidFile) THEN "stopped" ELSE "stale"
    /\ UNCHANGED <<pc, exitCode, portOwner, tick, cmds, watchEvt, sigPending>>
    /\ UNCHANGED <<now, config, usageLog, light, running, pollTimer, watcher, httpServer,
                   remoteUsage, nShutdown>>
    /\ UNCHANGED <<input, output>>

\* stopDaemon, lines 415-429, run by the `stop` command's own process.
stopDaemon ==
    /\ IF pidFile # NoFile /\ ProcessAlive(pidFile)
       THEN processKill(pidFile)
       ELSE UNCHANGED <<pc, exitCode, portOwner, tick, cmds, watchEvt, sigPending>>
    /\ pidFile' = IF pidFile = NoFile THEN pidFile ELSE removePid(pidFile)
    /\ reply' = IF pidFile = NoFile THEN "no daemon"
                ELSE IF ProcessAlive(pidFile) THEN "stopped" ELSE "stale"
    /\ UNCHANGED <<now, config, usageLog, light, running, pollTimer, watcher, httpServer,
                   remoteUsage, nShutdown>>
    /\ UNCHANGED <<input, output>>

\* ------------------------------------------------------- the poll callback
\* A write of the log is reported to every armed watcher.
Notified(w) ==
    [q \in Procs |-> IF w[q] = "armed" /\ ProcessAlive(q) THEN TRUE ELSE watchEvt[q]]

\* A poll callback in flight: awaiting a fetch, or awaiting the setLightColor
\* call `c` (which is in cmds as well).
Waiting(st) == [st |-> st]
Applying(c) == [st |-> "apply", cmd |-> c]

\* Line 385: updateLight up to its await; `t` is the callback as it stood
\* (Null when the timer has just fired).
TickUpdate(p, t, ru) ==
    LET c == updateLight(p, ru, "tick")
        rest == IF t = Null THEN tick[p] ELSE tick[p] (-) One(t)
    IN  /\ tick' = [tick EXCEPT ![p] = rest (+) One(Applying(c))]
        /\ cmds' = [cmds EXCEPT ![p] = @ (+) One(c)]

\* Mutant of TickCookieStage: without a snapshot and without a cookie the
\* callback returns before updateLight.
TickCookieStageGivesUp(p, t, ru) ==
    IF ru = Null /\ config.cookie
    THEN LET rest == IF t = Null THEN tick[p] ELSE tick[p] (-) One(t)
         IN  /\ tick' = [tick EXCEPT ![p] = rest (+) One(Waiting("cookie"))]
             /\ cmds' = cmds
    ELSE IF ru = Null
         THEN /\ tick' = [tick EXCEPT ![p] = IF t = Null THEN @ ELSE @ (-) One(t)]
              /\ cmds' = cmds
         ELSE TickUpdate(p, t, ru)

\* Lines 357-383: the cookie fetch, only without any snapshot.
TickCookieStage(p, t, ru) ==
    IF ru = Null /\ config.cookie
    THEN LET rest == IF t = Null THEN tick[p] ELSE tick[p] (-) One(t)
         IN  /\ tick' = [tick EXCEPT ![p] = rest (+) One(Waiting("cookie"))]
             /\ cmds' = cmds
    ELSE TickUpdate(p, t, ru)

\* Mutant of isStale: the comparison the wrong way round.
isStaleInverted(ru, time) == ru = Null \/ time - ru.receivedAt < USAGE_STALE_MS

isStale(ru, time) == ru = Null \/ time - ru.receivedAt > USAGE_STALE_MS

\* Mutant of TickFire: no callback starts while another is in flight.
TickFireExclusive(p) ==
    /\ pc[p] = "loop"
    /\ pollTimer[p] = "active"
    /\ BagCardinality(tick[p]) < MaxTicks
    /\ tick[p] = EmptyBag
    /\ IF ~running[p]
       THEN UNCHANGED <<tick, cmds>>
       ELSE IF isStale(remoteUsage[p], now)
            THEN \E oauthToken \in BOOLEAN :
                    IF oauthToken
                    THEN /\ tick' = [tick EXCEPT ![p] = @ (+) One(Waiting("oauth"))]
                         /\ cmds' = cmds
                    ELSE TickCookieStage(p, Null, remoteUsage[p])
            ELSE TickUpdate(p, Null, remoteUsage[p])
    /\ UNCHANGED <<now, pidFile, config, usageLog, portOwner, light, pc, exitCode, running,
                   pollTimer, watcher, httpServer, remoteUsage, sigPending, watchEvt,
                   nShutdown>>
    /\ UNCHANGED <<reply, input, output>>

\* Lines 327-337: the timer fires; up to the callback's first await.
TickFire(p) ==
    /\ pc[p] = "loop"
    /\ pollTimer[p] = "active"
    /\ BagCardinality(tick[p]) < MaxTicks
    /\ IF ~running[p]
       THEN UNCHANGED <<tick, cmds>>
       ELSE IF isStale(remoteUsage[p], now)
            THEN \E oauthToken \in BOOLEAN :
                    IF oauthToken
                    THEN /\ tick' = [tick EXCEPT ![p] = @ (+) One(Waiting("oauth"))]
                         /\ cmds' = cmds
                    ELSE TickCookieStage(p, Null, remoteUsage[p])
            ELSE TickUpdate(p, Null, remoteUsage[p])
    /\ UNCHANGED <<now, pidFile, config, usageLog, portOwner, light, pc, exitCode, running,
                   pollTimer, watcher, httpServer, remoteUsage, sigPending, watchEvt,
                   nShutdown>>
    /\ UNCHANGED <<reply, input, output>>

\* Lines 337-355: the callback's OAuth fetch settles.
TickOauthDone(p) ==
    /\ pc[p] = "loop"
    /\ BagIn(Waiting("oauth"), tick[p])
    /\ \E out \in FetchOutcomes :
          LET ru == Fetched(remoteUsage[p], out, "oauth", now)
          IN  /\ remoteUsage' = [remoteUsage EXCEPT ![p] = ru]
              /\ TickCookieStage(p, Waiting("oauth"), ru)
    /\ UNCHANGED <<now, pidFile, config, usageLog, portOwner, light, pc, exitCode, running,
                   pollTimer, watcher, httpServer, sigPending, watchEvt, nShutdown>>
    /\ UNCHANGED <<reply, input, output>>

\* Lines 364-385: the callback's cookie fetch settles.
TickCookieDone(p) ==
    /\ pc[p] = "loop"
    /\ BagIn(Waiting("cookie"), tick[p])
    /\ \E out \in FetchOutcomes :
          LET ru == Fetched(remoteUsage[p], out, "api", now)
          IN  /\ remoteUsage' = [remoteUsage EXCEPT ![p] = ru]
              /\ TickUpdate(p, Waiting("cookie"), ru)
    /\ UNCHANGED <<now, pidFile, config, usageLog, portOwner, light, pc, exitCode, running,
                   pollTimer, watcher, httpServer, sigPending, watchEvt, nShutdown>>
    /\ UNCHANGED <<reply, input, output>>

\* Mutant of TickApplySettles: a command that fails stops the timer.
TickApplySettlesFatal(p, resp) ==
    /\ pc[p] = "loop"
    /\ \E t \in BagToSet(tick[p]) :
          /\ t.st = "apply"
          /\ tick' = [tick EXCEPT ![p] = @ (-) One(t)]
          /\ cmds' = [cmds EXCEPT ![p] = @ (-) One(t.cmd)]
          /\ light' = IF BridgeApplies(resp) THEN t.cmd.percentage ELSE light
    /\ usageLog' = trimLog(usageLog, now, config.windowMs)
    /\ watchEvt' = IF usageLog.exists THEN Notified(watcher) ELSE watchEvt
    /\ \E w \in Armed(watcher[p], usageLog) : watcher' = [watcher EXCEPT ![p] = w]
    /\ pollTimer' = [pollTimer EXCEPT ![p] = IF setLightColor(resp) = "throw"
                                             THEN "cleared" ELSE @]
    /\ UNCHANGED <<now, pidFile, config, portOwner, pc, exitCode, running,
                   httpServer, remoteUsage, sigPending, nShutdown>>
    /\ UNCHANGED <<reply, input, output>>

\* Mutant of TickApplyArms: the callback never calls watch().
TickApplyArmsNever(p, resp, ok) ==
    /\ pc[p] = "loop"
    /\ \E t \in BagToSet(tick[p]) :
          /\ t.st = "apply"
          /\ tick' = [tick EXCEPT ![p] = @ (-) One(t)]
          /\ cmds' = [cmds EXCEPT ![p] = @ (-) One(t.cmd)]
          /\ light' = IF BridgeApplies(resp) THEN t.cmd.percentage ELSE light
    /\ usageLog' = trimLog(usageLog, now, config.windowMs)
    /\ watchEvt' = IF usageLog.exists THEN Notified(watcher) ELSE watchEvt
    /\ watcher' = watcher
    /\ UNCHANGED <<now, pidFile, config, portOwner, pc, exitCode, running, pollTimer,
                   httpServer, remoteUsage, sigPending, nShutdown>>
    /\ UNCHANGED <<reply, input, output>>

\* Lines 385-396: the callback's setLightColor settles; trimLog; watch() is
\* called if no watcher is held and the log exists, and `ok` says whether it
\* returned a watcher.
TickApplyArms(p, resp, ok) ==
    /\ pc[p] = "loop"
    /\ \E t \in BagToSet(tick[p]) :
          /\ t.st = "apply"
          /\ tick' = [tick EXCEPT ![p] = @ (-) One(t)]
          /\ cmds' = [cmds EXCEPT ![p] = @ (-) One(t.cmd)]
          /\ light' = IF BridgeApplies(resp) THEN t.cmd.percentage ELSE light
    /\ usageLog' = trimLog(usageLog, now, config.windowMs)
    /\ watchEvt' = IF usageLog.exists THEN Notified(watcher) ELSE watchEvt
    /\ watcher' = [watcher EXCEPT ![p] = watch(@, usageLog, ok)]
    /\ UNCHANGED <<now, pidFile, config, portOwner, pc, exitCode, running, pollTimer,
                   httpServer, remoteUsage, sigPending, nShutdown>>
    /\ UNCHANGED <<reply, input, output>>

TickApplySettles(p, resp) ==
    \E ok \in WatchOutcomes(watcher[p], usageLog) : TickApplyArms(p, resp, ok)

TickApplyDone(p) == \E resp \in BridgeResponses : TickApplySettles(p, resp)

\* ------------------------------------------- the push listener, the watcher
AsyncCmds(p) ==
    LET async == { c \in BagToSet(cmds[p]) : c.by = "async" }
    IN  IF async = {} THEN 0 ELSE BagCardinality([c \in async |-> cmds[p][c]])

\* Mutant of PushBody: a snapshot that is still recent is kept.
PushBodyKeepsRecent(p, body) ==
    /\ pc[p] \in AwaitStates
    /\ httpServer[p] = "listening"
    /\ LET parsed == IF body.parses THEN parseExtensionUsage(body.data) ELSE Null
       IN  IF parsed # Null
           THEN LET ru == IF ~isStale(remoteUsage[p], now) THEN remoteUsage[p]
                          ELSE [percentage |-> parsed.percentage, receivedAt |-> now,
                                source |-> "extension"]
                    c == updateLight(p, ru, "async")
                IN  /\ AsyncCmds(p) < MaxCmds
                    /\ remoteUsage' = [remoteUsage EXCEPT ![p] = ru]
                    /\ cmds' = [cmds EXCEPT ![p] = @ (+) One(c)]
                    /\ reply' = "200"
           ELSE /\ reply' = "400"
                /\ UNCHANGED <<remoteUsage, cmds>>
    /\ UNCHANGED <<now, pidFile, config, usageLog, portOwner, light, pc, exitCode, running,
                   pollTimer, watcher, httpServer, sigPending, tick, watchEvt, nShutdown>>
    /\ UNCHANGED <<input, output>>

\* POST /usage with the request body `body`, lines 119-143.
PushBody(p, body) ==
    /\ pc[p] \in AwaitStates
    /\ httpServer[p] = "listening"
    /\ LET parsed == IF body.parses THEN parseExtensionUsage(body.data) ELSE Null
       IN  IF parsed # Null
           THEN LET ru == [percentage |-> parsed.percentage, receivedAt |-> now,
                           source |-> "extension"]
                    c == updateLight(p, ru, "async")
                IN  /\ AsyncCmds(p) < MaxCmds
                    /\ remoteUsage' = [remoteUsage EXCEPT ![p] = ru]
                    /\ cmds' = [cmds EXCEPT ![p] = @ (+) One(c)]
                    /\ reply' = "200"
           ELSE /\ reply' = "400"
                /\ UNCHANGED <<remoteUsage, cmds>>
    /\ UNCHANGED <<now, pidFile, config, usageLog, portOwner, light, pc, exitCode, running,
                   pollTimer, watcher, httpServer, sigPending, tick, watchEvt, nShutdown>>
    /\ UNCHANGED <<input, output>>

Push(p) == \E body \in PushBodies : PushBody(p, body)

\* The body of the answer to GET /status, lines 149-153.
StatusBody(ru) ==
    [running |-> TRUE,
     extensionConnected |-> ru # Null,
     lastUpdate |-> IF ru # Null THEN Num(ru.receivedAt) ELSE Null]

\* GET /status, lines 146-156: answered with StatusBody(remoteUsage).
Status(p) ==
    /\ pc[p] \in AwaitStates
    /\ httpServer[p] = "listening"
    /\ reply' = "status"
    /\ UNCHANGED <<now, pidFile, config, usageLog, portOwner, light, pc, exitCode, running,
                   pollTimer, watcher, httpServer, remoteUsage, sigPending, tick, cmds,
                   watchEvt, nShutdown>>
    /\ UNCHANGED <<input, output>>

\* The watch callback, lines 318-320 and 390-392.
WatchFire(p) ==
    /\ pc[p] = "loop"
    /\ watcher[p] = "armed"
    /\ watchEvt[p]
    /\ watchEvt' = [watchEvt EXCEPT ![p] = FALSE]
    /\ IF running[p]
       THEN LET c == updateLight(p, remoteUsage[p], "async")
            IN  /\ AsyncCmds(p) < MaxCmds
                /\ cmds' = [cmds EXCEPT ![p] = @ (+) One(c)]
       ELSE cmds' = cmds
    /\ UNCHANGED <<now, pidFile, config, usageLog, portOwner, light, pc, exitCode, running,
                   pollTimer, watcher, httpServer, remoteUsage, sigPending, tick, nShutdown>>
    /\ UNCHANGED <<reply, input, output>>

\* The armed watcher fails: the FSWatcher emits 'error'.  The watcher has the
\* change listener of lines 318-320 or 390-392 and no 'error' listener, and
\* the process has no uncaughtException handler, so the event is thrown and
\* the process ends with status 1; shutdown does not run.
WatchError(p) ==
    /\ pc[p] = "loop"
    /\ watcher[p] = "armed"
    /\ Exits(p, "1")
    /\ UNCHANGED <<now, pidFile, config, usageLog, light, running, pollTimer, watcher,
                   httpServer, remoteUsage, nShutdown>>
    /\ UNCHANGED <<reply, input, output>>

\* An un-awaited updateLight's setLightColor settles, lines 273-287.
AsyncApplySettles(p, resp) ==
    /\ pc[p] \in AwaitStates
    /\ \E c \in BagToSet(cmds[p]) :
          /\ c.by = "async"
          /\ cmds' = [cmds EXCEPT ![p] = @ (-) One(c)]
          /\ light' = IF BridgeApplies(resp) THEN c.percentage ELSE light
    /\ UNCHANGED <<now, pidFile, config, usageLog, portOwner, pc, exitCode, running,
                   pollTimer, watcher, httpServer, remoteUsage, sigPending, tick, watchEvt,
                   nShutdown>>
    /\ UNCHANGED <<reply, input, output>>

AsyncApplyDone(p) == \E resp \in BridgeResponses : AsyncApplySettles(p, resp)

\* ------------------------------------------------------------ environment
\* The hook script: appendFileSync(logPath, new Date().toISOString() + "\n").
HookAppend ==
    /\ Len(usageLog.lines) < MaxLog
    /\ usageLog' = [exists |-> TRUE, lines |-> Append(usageLog.lines, now)]
    /\ watchEvt' = Notified(watcher)
    /\ UNCHANGED <<now, pidFile, config, portOwner, light, pc, exitCode, running, pollTimer,
                   watcher, httpServer, remoteUsage, sigPending, tick, cmds, nShutdown>>
    /\ UNCHANGED <<reply, input, output>>

\* Another program binds 127.0.0.1:EXTENSION_PORT while no daemon holds it.
OtherBind ==
    /\ portOwner = 0
    /\ portOwner' = OtherProgram
    /\ UNCHANGED <<now, pidFile, config, usageLog, light, pc, exitCode, running, pollTimer,
                   watcher, httpServer, remoteUsage, sigPending, tick, cmds, watchEvt,
                   nShutdown>>
    /\ UNCHANGED <<reply, input, output>>

AdvanceTime ==
    /\ now + ClockStep <= MaxTime
    /\ now' = now + ClockStep
    /\ UNCHANGED <<pidFile, config, usageLog, portOwner, light, pc, exitCode, running,
                   pollTimer, watcher, httpServer, remoteUsage, sigPending, tick, cmds,
                   watchEvt, nShutdown>>
    /\ UNCHANGED <<reply, input, output>>

\* ---------------------------------------------------------- specifications
Startup(p) ==
    \/ StartCheck(p)
    \/ StartRemoveStale(p)
    \/ StartLoadFail(p)
    \/ StartLoad(p)
    \/ StartupOauthDone(p)
    \/ StartupCookieDone(p)
    \/ InitApplyDone(p)

\* One daemon through its whole life, with its timer, watcher and listener.
Next ==
    \/ Startup(Daemon)
    \/ Signal(Daemon)
    \/ shutdown(Daemon)
    \/ TickFire(Daemon)
    \/ TickOauthDone(Daemon)
    \/ TickCookieDone(Daemon)
    \/ TickApplyDone(Daemon)
    \/ Push(Daemon)
    \/ WatchFire(Daemon)
    \/ AsyncApplyDone(Daemon)
    \/ HookAppend
    \/ AdvanceTime

Spec == Init /\ [][Next]_vars

\* The start and signal steps of every process, interleaved.
NextLife ==
    \/ \E p \in Procs : Startup(p)
    \/ \E p \in Procs : Signal(p)
    \/ \E p \in Procs : shutdown(p)

SpecLife == Init /\ [][NextLife]_vars

\* The daemon that no signal ends, with a timer that keeps firing, fetches
\* that settle and a bridge that accepts a command again and again.
Accepted == [status |-> 200, body |-> "successList"]
Fairness ==
    /\ WF_vars(TickFire(Daemon))
    /\ WF_vars(TickOauthDone(Daemon))
    /\ WF_vars(TickCookieDone(Daemon))
    /\ SF_vars(TickApplySettles(Daemon, Accepted))

NextFair ==
    \/ Startup(Daemon)
    \/ TickFire(Daemon)
    \/ TickOauthDone(Daemon)
    \/ TickCookieDone(Daemon)
    \/ TickApplyDone(Daemon)
    \/ Push(Daemon)
    \/ WatchFire(Daemon)
    \/ AsyncApplyDone(Daemon)
    \/ HookAppend
    \/ AdvanceTime

SpecFair == Init /\ [][NextFair]_vars /\ Fairness

\* One daemon and the `stop` command.
NextStop ==
    \/ Startup(Daemon)
    \/ Signal(Daemon)
    \/ shutdown(Daemon)
    \/ stopDaemon

SpecStop == Init /\ [][NextStop]_vars

\* One daemon that starts and polls while another program may hold the port.
NextPort ==
    \/ OtherBind
    \/ Startup(Daemon)
    \/ TickFire(Daemon)
    \/ TickOauthDone(Daemon)
    \/ TickCookieDone(Daemon)
    \/ TickApplyDone(Daemon)
    \/ Push(Daemon)
    \/ WatchFire(Daemon)
    \/ AsyncApplyDone(Daemon)
    \/ HookAppend
    \/ AdvanceTime

SpecPort == Init /\ [][NextPort]_vars

\* One daemon whose armed watcher can fail, without an extension that
\* pushes.
NextWatch ==
    \/ Startup(Daemon)
    \/ Signal(Daemon)
    \/ shutdown(Daemon)
    \/ TickFire(Daemon)
    \/ TickOauthDone(Daemon)
    \/ TickCookieDone(Daemon)
    \/ TickApplyDone(Daemon)
    \/ WatchFire(Daemon)
    \/ AsyncApplyDone(Daemon)
    \/ HookAppend
    \/ AdvanceTime
    \/ WatchError(Daemon)

SpecWatch == Init /\ [][NextWatch]_vars

\* One daemon that is asked for its status, without an extension that
\* pushes, and with one.
NextStatus ==
    \/ Status(Daemon)
    \/ Startup(Daemon)
    \/ Signal(Daemon)
    \/ shutdown(Daemon)
    \/ TickFire(Daemon)
    \/ TickOauthDone(Daemon)
    \/ TickCookieDone(Daemon)
    \/ TickApplyDone(Daemon)
    \/ WatchFire(Daemon)
    \/ AsyncApplyDone(Daemon)
    \/ HookAppend
    \/ AdvanceTime

SpecStatus == Init /\ [][NextStatus]_vars

NextStatusPush ==
    \/ NextStatus
    \/ Push(Daemon)

SpecStatusPush == Init /\ [][NextStatusPush]_vars

\* ------------------------------------------------- the functions on their own
\* The payloads and bridge answers the parsers and setLightColor are run on.
\* Categories of five names (two of them with none of the substrings the
\* adapters look for); raw values -0.5, 0.42, 1, 42, 90 and 150, held as a
\* number in a field both parsers read, as a numeric string in that field,
\* or as a number in a field only the adapters read; and categories with no
\* utilization field at all.
PureTypes == {"five_hour", "seven_day", "extra_usage", "daily", "monthly"}
PureRaws ==
    {0 - (Scale \div 2), (42 * Scale) \div 100, Scale, 42 * Scale, 90 * Scale, 150 * Scale}
PureFields ==
    { [key |-> "utilization", isStr |-> FALSE], [key |-> "utilization", isStr |-> TRUE],
      [key |-> "usage_percentage", isStr |-> FALSE] }
PayloadCats ==
    { [type |-> t, key |-> f.key, raw |-> r, isStr |-> f.isStr] :
        t \in PureTypes, f \in PureFields, r \in PureRaws } \cup
    { [type |-> t, key |-> "resets_at", raw |-> 0, isStr |-> TRUE] : t \in PureTypes }
\* The objects of up to two of the categories; an object's keys are distinct.
Payloads(cats) ==
    {<<>>} \cup { <<c>> : c \in cats }
           \cup { pr \in cats \X cats : pr[1].type # pr[2].type }
\* The usage logs calculateUsage and trimLog are run on, at the moment
\* PureTime: a missing file, and every text of up to maxLines lines, each
\* empty, unparseable or a timestamp: older than two windows, between one and
\* two windows old, on the window's boundary, or in the future.
PureTime == 3 * ClockStep
LineValues == {EmptyLine, NaN, 0, ClockStep, 2 * ClockStep, 4 * ClockStep}
RECURSIVE LinesOfLen(_)
LinesOfLen(n) ==
    IF n = 0 THEN {<<>>}
    ELSE { Append(l, v) : l \in LinesOfLen(n - 1), v \in LineValues }
PureFiles(maxLines) ==
    {[exists |-> FALSE, text |-> <<>>]} \cup
    { [exists |-> TRUE, text |-> l] : l \in UNION { LinesOfLen(n) : n \in 1..maxLines } }
PureWindows == {0 - ClockStep, 0, ClockStep}
PureMaxPrompts == (0 - 1)..2

\* The log as the functions read it (usage.ts 13-19, 37-40), and the file
\* trimLog leaves (usage.ts 37, 47): a missing file is not written.
ReadLog(file) ==
    [exists |-> file.exists, lines |-> SplitLines(file.text)]
WriteLog(file, log) ==
    IF ~file.exists THEN file ELSE [exists |-> TRUE, text |-> JoinLines(log.lines)]

\* The percentages a resolve can give: what calculateUsage returns for the
\* logs above, and a remote percentage beyond 1 (a pushed utilization of
\* 150).
PurePercents(files) ==
    { calculateUsage(ReadLog(f), PureTime, w, m).percentage :
        f \in files, w \in PureWindows, m \in PureMaxPrompts } \cup {(3 * Scale) \div 2}
\* Configured end points (config.colors, config.brightness): presets of
\* COLOR_PRESETS, and brightness values in and out of 0..100.
PureColors ==
    { [x |-> 2151, y |-> 7106], [x |-> 6750, y |-> 3220], [x |-> 1530, y |-> 480] }
PureBrightness == {0 - 20, 0, 51, 100, 120}
EndPoints == { [x |-> c.x, y |-> c.y, bri |-> b] : c \in PureColors, b \in PureBrightness }

NoInput ==
    [kind |-> "none", payload |-> <<>>, answer |-> Unreachable,
     file |-> [exists |-> FALSE, text |-> <<>>], windowMs |-> 0, maxPrompts |-> 1,
     start |-> [x |-> 0, y |-> 0, bri |-> 0], end |-> [x |-> 0, y |-> 0, bri |-> 0],
     t |-> 0]
PureInputs(files) ==
    { [NoInput EXCEPT !.kind = "payload", !.payload = d] : d \in Payloads(PayloadCats) } \cup
    { [NoInput EXCEPT !.kind = "answer", !.answer = a] : a \in BridgeAnswers } \cup
    { [NoInput EXCEPT !.kind = "usage", !.file = f, !.windowMs = w, !.maxPrompts = m] :
        f \in files, w \in PureWindows, m \in PureMaxPrompts } \cup
    { [NoInput EXCEPT !.kind = "light", !.start = a, !.end = b, !.t = t] :
        a \in EndPoints, b \in EndPoints, t \in PurePercents(files) }

\* The function has not been run yet.
Pending == [pending |-> TRUE]
NotRun ==
    [push |-> Pending, adapter |-> Pending, light |-> Pending, usage |-> Pending,
     file |-> Pending, trims |-> 0, color |-> Pending, brightness |-> Pending,
     bri |-> Pending, held |-> Pending, appended |-> 0, raced |-> FALSE]

InitPure ==
    /\ InitDaemon
    /\ pidFile = NoFile
    /\ config = Null
    /\ ~usageLog.exists
    /\ input \in PureInputs(PureFiles(MaxLines))
    /\ output = [NotRun EXCEPT !.file = input.file]

Frame ==
    UNCHANGED <<now, pidFile, config, usageLog, portOwner, light, pc, exitCode, running,
                pollTimer, watcher, httpServer, remoteUsage, sigPending, tick, cmds,
                watchEvt, nShutdown, reply, input>>

\* The percentage the push handler stores for the payload (daemon.ts 125-128),
\* or Null when it answers 400.
StoredByPush(data) ==
    LET parsed == parseExtensionUsage(data)
    IN  IF parsed # Null THEN Num(parsed.percentage) ELSE Null

\* The percentage the poll callback stores for the payload an adapter got
\* (daemon.ts 337-350), or Null when it stores nothing.
StoredByAdapter(data) ==
    LET ru == Fetched(Null, parseUsageResponse(data), "oauth", 0)
    IN  IF ru # Null THEN Num(ru.percentage) ELSE Null

RunPush ==
    /\ input.kind = "payload"
    /\ output.push = Pending
    /\ output' = [output EXCEPT !.push = StoredByPush(input.payload)]
    /\ Frame

RunAdapter ==
    /\ input.kind = "payload"
    /\ output.adapter = Pending
    /\ output' = [output EXCEPT !.adapter = StoredByAdapter(input.payload)]
    /\ Frame

RunSetLightColor ==
    /\ input.kind = "answer"
    /\ output.light = Pending
    /\ output' = [output EXCEPT !.light = [outcome |-> setLightColor(input.answer)]]
    /\ Frame

\* calculateUsage(USAGE_LOG_PATH, windowMs, maxPrompts) on the file as it is.
RunCalculateUsage ==
    /\ input.kind = "usage"
    /\ output.usage = Pending
    /\ output' = [output EXCEPT !.usage = calculateUsage(ReadLog(output.file), PureTime,
                                                          input.windowMs, input.maxPrompts)]
    /\ Frame

\* trimLog(USAGE_LOG_PATH, windowMs) on the file as it is; the result of an
\* earlier calculateUsage is forgotten.
RunTrimLog ==
    /\ input.kind = "usage"
    /\ output.trims < MaxTrims
    /\ output' = [output EXCEPT !.file = WriteLog(output.file,
                                                    trimLog(ReadLog(output.file), PureTime,
                                                            input.windowMs)),
                                !.trims = @ + 1,
                                !.usage = Pending]
    /\ Frame

\* updateLight lines 266-271: the colour and the brightness for the
\* percentage.
RunInterpolate ==
    /\ input.kind = "light"
    /\ output.color = Pending
    /\ output' = [output EXCEPT
                    !.color = interpolateColor(input.start, input.end, input.t),
                    !.brightness = interpolateBrightness(input.start.bri, input.end.bri,
                                                         input.t)]
    /\ Frame

\* setLightColor lines 17-26: the `bri` of the command for that brightness.
RunBri ==
    /\ input.kind = "light"
    /\ output.brightness # Pending
    /\ output.bri = Pending
    /\ output' = [output EXCEPT !.bri = bri(output.brightness)]
    /\ Frame

NextPure ==
    \/ RunPush
    \/ RunAdapter
    \/ RunSetLightColor
    \/ RunCalculateUsage
    \/ RunTrimLog
    \/ RunInterpolate
    \/ RunBri

SpecPure == InitPure /\ [][NextPure]_vars

\* ------------------------------------- trimLog and the hook, two processes
\* The hook script and the daemon are two processes on one file: the hook's
\* appendFileSync can fall between trimLog's readFileSync (usage.ts 40) and
\* its writeFileSync (47).  The files are those the two programs leave: a
\* missing one, or a text that ends with a newline.
RaceFiles(files) == { f \in files : ~f.exists \/ f.text[Len(f.text)] = EmptyLine }
RaceInputs(files) ==
    { [NoInput EXCEPT !.kind = "race", !.file = f, !.windowMs = w] :
        f \in RaceFiles(files), w \in PureWindows }

InitRace ==
    /\ InitDaemon
    /\ pidFile = NoFile
    /\ config = Null
    /\ ~usageLog.exists
    /\ input \in RaceInputs(PureFiles(MaxLines))
    /\ output = [NotRun EXCEPT !.file = input.file]

\* appendFileSync(logPath, line + "\n") on a file that is missing or ends
\* with a newline.
AppendLine(file, line) ==
    IF ~file.exists THEN [exists |-> TRUE, text |-> <<line, EmptyLine>>]
    ELSE [exists |-> TRUE,
          text |-> SubSeq(file.text, 1, Len(file.text) - 1) \o <<line, EmptyLine>>]

\* trimLog lines 37-40: a missing file ends the call, else the file is read.
TrimRead ==
    /\ output.held = Pending
    /\ output.trims < MaxTrims
    /\ output' = IF ~output.file.exists THEN [output EXCEPT !.trims = @ + 1]
                 ELSE [output EXCEPT !.held = ReadLog(output.file)]
    /\ Frame

\* trimLog lines 41-47: what was read is filtered and written.
TrimWrite ==
    /\ output.held # Pending
    /\ output' = [output EXCEPT
                    !.file = WriteLog(output.file, trimLog(output.held, PureTime,
                                                            input.windowMs)),
                    !.held = Pending,
                    !.trims = @ + 1]
    /\ Frame

\* The hook runs, at the moment PureTime.
HookAppendLine ==
    /\ output.appended < MaxAppends
    /\ output' = [output EXCEPT !.file = AppendLine(output.file, PureTime),
                                !.appended = @ + 1,
                                !.raced = @ \/ output.held # Pending]
    /\ Frame

NextRace == TrimRead \/ TrimWrite \/ HookAppendLine

SpecRace == InitRace /\ [][NextRace]_vars

\* ------------------------------------------------------------------ claims
Remote == {"extension", "oauth", "api"}
Count(st, p) == CopiesIn(Waiting(st), tick[p])
\* A daemon that holds the marker step behind it and has no signal pending.
Active(p) == ProcessAlive(p) /\ running[p] /\ ~sigPending[p]

\* C1: a push snapshot that is accepted while a poll callback's OAuth or
\* cookie fetch is in flight is still the snapshot when that fetch settles;
\* it is replaced only by a newer push or once it is 5 minutes old.
C1_PushSurvivesPoll ==
    [][\A p \in Procs :
          (/\ pc[p] = "loop"
           /\ remoteUsage[p] # Null
           /\ remoteUsage[p].source = "extension"
           /\ now' - remoteUsage[p].receivedAt < USAGE_STALE_MS)
          => remoteUsage'[p].source = "extension"]_vars

\* C2: on a poll whose snapshot is absent or older than 5 minutes, when the
\* OAuth adapter has no token, throws or returns no entry, the cookie adapter
\* is called if cookie credentials are configured.
C2_CookieTriedWhenOauthFails ==
    [][\A p \in Procs :
          LET fired == BagCardinality(tick'[p]) > BagCardinality(tick[p])
              oauthCalled == Count("oauth", p)' > Count("oauth", p)
              oauthSettled == pc'[p] = "loop" /\ Count("oauth", p)' < Count("oauth", p)
              ru == remoteUsage'[p]
          IN  (/\ config # Null
               /\ config.cookie
               /\ (fired /\ ~oauthCalled) \/ oauthSettled
               /\ ru = Null \/ now' - ru.receivedAt > USAGE_STALE_MS)
              => Count("cookie", p)' > Count("cookie", p)]_vars

\* C3: a poll that fires while the snapshot is a push snapshot younger than
\* 5 minutes resolves to that snapshot's percentage with source extension and
\* calls neither adapter.
C3_FreshPushSkipsAdapters ==
    [][\A p \in Procs :
          LET ru == remoteUsage[p]
          IN  (/\ BagCardinality(tick'[p]) > BagCardinality(tick[p])
               /\ ru # Null
               /\ ru.source = "extension"
               /\ now - ru.receivedAt < USAGE_STALE_MS)
              => LET c == [percentage |-> ru.percentage, source |-> "extension",
                           by |-> "tick"]
                 IN  /\ tick'[p] = tick[p] (+) One(Applying(c))
                     /\ cmds'[p] = cmds[p] (+) One(c)]_vars

C3_Witness ==
    /\ config # Null
    /\ config.cookie
    /\ remoteUsage[Daemon] # Null
    /\ remoteUsage[Daemon].source = "extension"
    /\ now - remoteUsage[Daemon].receivedAt < USAGE_STALE_MS
    /\ \E t \in BagToSet(tick[Daemon]) : t.st = "apply" /\ t.cmd.source = "extension"

\* The commands updateLight sends in a step.
Issued(p) == BagToSet(cmds'[p] (-) cmds[p])

\* C4: a resolve with the snapshot absent or 5 minutes old or older gives
\* source local and the percentage calculateUsage gives for the log as it is
\* at that moment.
C4_StaleResolvesLocalNow ==
    [][\A p \in Procs : \A c \in Issued(p) :
          (remoteUsage'[p] = Null \/ now' - remoteUsage'[p].receivedAt >= USAGE_STALE_MS)
          => /\ c.source = "local"
             /\ c.percentage =
                  calculateUsage(usageLog', now', config.windowMs, config.maxPrompts).percentage
       ]_vars

C4_Witness ==
    /\ remoteUsage[Daemon] # Null
    /\ now - remoteUsage[Daemon].receivedAt >= USAGE_STALE_MS
    /\ \E c \in BagToSet(cmds[Daemon]) : c.source = "local" /\ c.percentage > 0

\* C5: a percentage sent to the light with a remote source tag is the
\* percentage of the current snapshot, whose age at that resolve is strictly
\* less than 5 minutes.
C5_RemoteTagMeansFresh ==
    [][\A p \in Procs : \A c \in Issued(p) :
          c.source \in Remote
          => /\ remoteUsage'[p] # Null
             /\ now' - remoteUsage'[p].receivedAt < USAGE_STALE_MS
             /\ c.percentage = remoteUsage'[p].percentage
             /\ c.source = remoteUsage'[p].source]_vars

C5_Witness ==
    /\ now > 0
    /\ \E c \in BagToSet(cmds[Daemon]) : c.source = "oauth" /\ c.by = "tick"

\* C6: at most one process runs the scheduler at a time, however the start()
\* invocations of separate processes interleave.
C6_SingleScheduler ==
    Cardinality({p \in Procs : pc[p] = "loop" /\ pollTimer[p] = "active"}) <= 1

\* C7: a start() invoked while another daemon is active exits with status 1,
\* leaves exactly one daemon running and leaves that daemon's marker,
\* snapshot, timer, watcher and listener as they were.
C7_DoubleStartRefused ==
    [][\A q \in Procs :
          (/\ pc[q] = "idle"
           /\ pc'[q] # "idle"
           /\ \E p \in Procs \ {q} : Active(p))
          => /\ exitCode'[q] = "1"
             /\ Cardinality({p \in Procs : Active(p)'}) = 1
             /\ pidFile' = pidFile
             /\ \A p \in Procs \ {q} :
                   /\ remoteUsage'[p] = remoteUsage[p]
                   /\ pollTimer'[p] = pollTimer[p]
                   /\ watcher'[p] = watcher[p]
                   /\ httpServer'[p] = httpServer[p]]_vars

\* C8: a daemon that has written its PID marker and is ended by SIGINT or
\* SIGTERM has deleted the marker when it is gone.
C8_MarkerDeletedOnSignal ==
    \A p \in Procs :
        (pc[p] = "exited" /\ (exitCode[p] = "0" \/ (exitCode[p] = "signal" /\ running[p])))
        => pidFile # p

\* C9: once shutdown has begun, a further signal does nothing: the timer
\* stop, the watcher close, the listener close and the marker removal happen
\* at most once in a daemon's run.
C9_ShutdownOnce ==
    [][\A p \in Procs :
          nShutdown[p] >= 1
          => /\ nShutdown'[p] = nShutdown[p]
             /\ pollTimer'[p] = pollTimer[p]
             /\ watcher'[p] = watcher[p]
             /\ httpServer'[p] = httpServer[p]]_vars

C9_Witness == nShutdown[Daemon] = 1 /\ exitCode[Daemon] = "0"

\* C10: after shutdown has begun no poll, file change or push leads to a
\* resolve, a snapshot write or a command to the light.
C10_NothingAfterShutdown ==
    [][\A p \in Procs :
          nShutdown'[p] >= 1
          => /\ remoteUsage'[p] = remoteUsage[p]
             /\ Issued(p) = {}]_vars

C10_Witness ==
    /\ pc[Daemon] = "exited"
    /\ pollTimer[Daemon] = "cleared"
    /\ watcher[Daemon] = "closed"
    /\ httpServer[Daemon] = "closed"
    /\ remoteUsage[Daemon] # Null

Extractable(body) ==
    /\ body.parses
    /\ \E i \in 1..Len(body.data) :
          body.data[i].key \in ExtensionKeys /\ ~body.data[i].isStr

\* C13: a POST /usage with an extractable utilization replaces the snapshot,
\* whatever it was, by one with source extension (push) and receivedAt the
\* time of receipt, sends the light a command for that value and is answered
\* with status 200.
C13_PushAccepted ==
    [][\A p \in Procs : \A body \in PushBodies :
          (PushBody(p, body) /\ Extractable(body))
          => /\ reply' = "200"
             /\ remoteUsage'[p].source = "extension"
             /\ remoteUsage'[p].receivedAt = now
             /\ cmds'[p] (-) cmds[p] =
                  One([percentage |-> remoteUsage'[p].percentage, source |-> "extension",
                       by |-> "async"])]_vars

C13_Witness ==
    /\ reply = "200"
    /\ now > 0
    /\ remoteUsage[Daemon] # Null
    /\ remoteUsage[Daemon].source = "extension"
    /\ remoteUsage[Daemon].receivedAt = now
    /\ \E c \in BagToSet(cmds[Daemon]) : c.by = "async" /\ c.source = "extension"

\* C14: a POST /usage whose body is not JSON or holds no extractable
\* utilization is answered with status 400, leaves the snapshot as it was
\* and sends the light nothing.
C14_BadPushRejected ==
    [][\A p \in Procs : \A body \in PushBodies :
          (PushBody(p, body) /\ ~Extractable(body))
          => /\ reply' = "400"
             /\ remoteUsage'[p] = remoteUsage[p]
             /\ cmds'[p] = cmds[p]
             /\ light' = light]_vars

C14_Witness ==
    /\ reply = "400"
    /\ remoteUsage[Daemon] # Null
    /\ pc[Daemon] = "loop"

\* C15: for every usage payload the push handler and the remote adapters
\* store the same percentage (or both store nothing).
C15_SameExtraction ==
    (input # Null /\ input.kind = "payload" /\ output.push # Pending /\ output.adapter # Pending)
    => output.push = output.adapter

\* The commands of poll callbacks among the commands in flight.
TickCmds(B) ==
    LET of == { c \in BagToSet(B) : c.by = "tick" }
    IN  [c \in of |-> B[c]]

\* C16: a poll callback that fires while the daemon runs sends the light
\* exactly one command: it does so when it fires (the refresh is skipped) or
\* when its last fetch settles (with or without data), it ends only after
\* that command settled, and it sends no second one.
C16_OneCommandPerTick ==
    /\ [](\A p \in Procs :
            TickCmds(cmds[p]) =
              LET applying == { t \in BagToSet(tick[p]) : t.st = "apply" }
              IN  [c \in { t.cmd : t \in applying } |-> tick[p][Applying(c)]])
    /\ [][\A p \in Procs :
            (pc[p] = "loop" /\ pc'[p] = "loop")
            => LET added == tick'[p] (-) tick[p]
                   removed == tick[p] (-) tick'[p]
                   issued == TickCmds(cmds'[p] (-) cmds[p])
               IN  /\ BagCardinality(added) <= 1
                   /\ BagCardinality(removed) <= 1
                   /\ (TickFire(p) /\ running[p]) => BagCardinality(added) = 1
                   /\ \A t \in BagToSet(added) :
                         issued = IF t.st = "apply" THEN One(t.cmd) ELSE EmptyBag
                   /\ added = EmptyBag => issued = EmptyBag
                   /\ \A t \in BagToSet(removed) :
                         IF t.st = "apply" THEN added = EmptyBag
                         ELSE added # EmptyBag]_vars

C16_Witness ==
    /\ config # Null
    /\ config.cookie
    /\ remoteUsage[Daemon] = Null
    /\ \E t \in BagToSet(tick[Daemon]) : t.st = "apply" /\ t.cmd.source = "local"

\* C17: a command to the light that settles, failed ones included, never
\* ends the daemon, stops the timer, closes the watcher or the listener or
\* changes the snapshot; the timer stays armed for the next poll.
C17_FailureIsNotFatal ==
    [][\A p \in Procs :
          (/\ cmds[p] (-) cmds'[p] # EmptyBag
           /\ exitCode'[p] \notin {"0", "signal"})
          => /\ pc'[p] \in {pc[p], "loop"}
             /\ exitCode'[p] = "none"
             /\ pollTimer'[p] # "cleared"
             /\ pc'[p] = "loop" => pollTimer'[p] = "active"
             /\ watcher'[p] \in {watcher[p], "armed"}
             /\ httpServer'[p] = httpServer[p]
             /\ remoteUsage'[p] = remoteUsage[p]]_vars

C17_Witness ==
    /\ pc[Daemon] = "loop"
    /\ light = NoLight
    /\ pollTimer[Daemon] = "active"
    /\ httpServer[Daemon] = "listening"
    /\ \E t \in BagToSet(tick[Daemon]) : t.st = "apply"

\* C18: whatever answer of the bridge is not a success (an error entry in
\* the list, an error object, a non-success HTTP status, no answer),
\* setLightColor fails for it.
C18_FailureSurfaced ==
    (/\ input # Null
     /\ input.kind = "answer"
     /\ output.light # Pending
     /\ ~(input.answer.status = 200 /\ input.answer.body = "successList"))
    => output.light.outcome = "throw"

\* The percentage a resolve gives now.
Current(p) == getUsagePercentage(remoteUsage[p], usageLog, now, config).percentage

\* C19: with a timer that keeps firing and a bridge that accepts commands
\* again and again, the light again and again shows the percentage that
\* currently resolves, whatever commands failed or arrived out of order
\* before.
C19_LightConverges ==
    []<>(pc[Daemon] # "loop" \/ light = Current(Daemon))

C19_Witness ==
    /\ pc[Daemon] = "loop"
    /\ light # NoLight
    /\ light # Current(Daemon)
    /\ cmds[Daemon] = EmptyBag

\* C20: a poll callback still waiting for its fetch or for the bridge does
\* not hold back the timer: the next callback can fire, and when it fires it
\* is added to the ones in flight and, with a recent snapshot, sends its own
\* command at once.
C20_TicksOverlap ==
    /\ [](\A p \in {Daemon} :
            (/\ pc[p] = "loop"
             /\ pollTimer[p] = "active"
             /\ tick[p] # EmptyBag
             /\ BagCardinality(tick[p]) < MaxTicks)
            => ENABLED TickFire(p))
    /\ [][\A p \in Procs :
            (TickFire(p) /\ running[p] /\ tick[p] # EmptyBag)
            => /\ BagCardinality(tick'[p]) = BagCardinality(tick[p]) + 1
               /\ \A t \in BagToSet(tick[p]) : CopiesIn(t, tick'[p]) >= CopiesIn(t, tick[p])
               /\ (remoteUsage[p] # Null /\ now - remoteUsage[p].receivedAt < USAGE_STALE_MS)
                  => TickCmds(cmds'[p] (-) cmds[p]) # EmptyBag]_vars

C20_Witness ==
    /\ BagCardinality(tick[Daemon]) = 2
    /\ \E t, u \in BagToSet(tick[Daemon]) : t.st = "oauth" /\ u.st = "apply"

\* The commands of startDaemon's own updateLight among the commands in flight.
InitCmds(B) ==
    LET of == { c \in BagToSet(B) : c.by = "init" }
    IN  [c \in of |-> B[c]]

\* The order of startDaemon's positions.
StartRank(st) ==
    CASE st = "idle" -> 0
      [] st = "rmStale" -> 1
      [] st = "load" -> 2
      [] st = "startupOauth" -> 3
      [] st = "startupCookie" -> 4
      [] st = "initApply" -> 5
      [] st = "loop" -> 6
      [] st = "exited" -> 7

C22_WatcherArmsLate ==
    /\ [][\A p \in Procs : \A resp \in BridgeResponses :
            (TickApplyArms(p, resp, TRUE) /\ usageLog.exists /\ watcher[p] = "null")
            => watcher'[p] = "armed"]_vars
    /\ [][\A p \in Procs :
            (pc'[p] = "loop" /\ watcher[p] = "armed" /\ usageLog' # usageLog)
            => watchEvt'[p]]_vars
    /\ [](\A p \in {Daemon} :
            (/\ pc[p] = "loop"
             /\ watcher[p] = "armed"
             /\ watchEvt[p]
             /\ running[p] => AsyncCmds(p) < MaxCmds)
            => ENABLED WatchFire(p))
    /\ [][\A p \in Procs :
            (WatchFire(p) /\ running[p])
            => LET r == getUsagePercentage(remoteUsage[p], usageLog, now, config)
               IN  /\ cmds'[p] (-) cmds[p] =
                        One([percentage |-> r.percentage, source |-> r.source,
                             by |-> "async"])
                   /\ tick'[p] = tick[p]]_vars

C22_Witness ==
    /\ pc[Daemon] = "loop"
    /\ watcher[Daemon] = "armed"
    /\ tick[Daemon] = EmptyBag
    /\ usageLog.lines # <<>>
    /\ \E c \in BagToSet(cmds[Daemon]) :
          c.by = "async" /\ c.source = "local" /\ c.percentage > 0

\* C23: a failure of the watch leaves the daemon running with its timer
\* armed, whether watch() throws at the start or in a poll callback or the
\* armed watcher fails later; the only step that logs the watch warning is
\* the start's, which a daemon takes at most once.
C23_WatchFailureNotFatal ==
    [][\A p \in Procs :
          /\ (\E resp \in BridgeResponses :
                 InitApplyArms(p, resp, FALSE) \/ TickApplyArms(p, resp, FALSE))
             => /\ pc'[p] = "loop"
                /\ pollTimer'[p] = "active"
                /\ exitCode'[p] = "none"
          /\ WatchError(p)
             => /\ pc'[p] = "loop"
                /\ pollTimer'[p] = "active"
                /\ exitCode'[p] = "none"
          /\ (\E resp \in BridgeResponses : InitApplyArms(p, resp, FALSE))
             => pc[p] = "initApply" /\ pc'[p] # "initApply"]_vars

\* C24: a start that finds the port in use goes on: the listener is marked
\* failed, the marker is written and the start continues with the fetch; from
\* then on the daemon does not end, each startup fetch and the initial apply
\* can settle, the initial apply arms the watcher and creates the timer as it
\* does with a listener, and the timer keeps firing.
C24_BindFailureNotFatal ==
    /\ [][\A p \in Procs :
            /\ (StartLoad(p) /\ portOwner # 0)
               => /\ httpServer'[p] = "failed"
                  /\ running'[p]
                  /\ pidFile' = p
                  /\ exitCode'[p] = "none"
                  /\ pc'[p] \in {"startupOauth", "startupCookie", "initApply"}
            /\ (httpServer[p] = "failed" /\ pc[p] = "initApply" /\ pc'[p] # pc[p])
               => /\ pc'[p] = "loop"
                  /\ pollTimer'[p] = "active"
                  /\ watcher'[p] \in Armed(watcher[p], usageLog)
                  /\ InitCmds(cmds'[p]) = EmptyBag]_vars
    /\ [](\A p \in {Daemon} :
            httpServer[p] = "failed"
            => /\ exitCode[p] = "none"
               /\ pc[p] = "startupOauth" => ENABLED StartupOauthDone(p)
               /\ pc[p] = "startupCookie" => ENABLED StartupCookieDone(p)
               /\ pc[p] = "initApply" => ENABLED InitApplyDone(p)
               /\ pc[p] = "loop"
                  => /\ pollTimer[p] = "active"
                     /\ BagCardinality(tick[p]) < MaxTicks => ENABLED TickFire(p))

C24_Witness ==
    /\ httpServer[Daemon] = "failed"
    /\ portOwner = OtherProgram
    /\ pc[Daemon] = "loop"
    /\ pollTimer[Daemon] = "active"
    /\ watcher[Daemon] = "armed"
    /\ remoteUsage[Daemon] # Null
    /\ \E t \in BagToSet(tick[Daemon]) : t.st = "apply"

\* The lines of a log that parse to a timestamp at most windowMs old at the
\* moment `time`.
InWindow(file, time, windowMs) ==
    { i \in 1..Len(file.text) :
        /\ file.text[i] # EmptyLine
        /\ file.text[i] # NaN
        /\ time - file.text[i] <= windowMs }

\* C25: for every windowMs, every maxPrompts and every log, the percentage
\* calculateUsage returns is a number from 0 to 1; with a positive maxPrompts
\* it is count / maxPrompts, and 1 from maxPrompts entries on; the count it
\* returns is the number of entries in the window, beyond maxPrompts too.
C25_PercentageCapped ==
    [][RunCalculateUsage
       => LET r == output'.usage
          IN  /\ r.percentage # NaN
              /\ 0 <= r.percentage
              /\ r.percentage <= Scale
              /\ input.maxPrompts > 0
                 => r.percentage = IF r.count >= input.maxPrompts THEN Scale
                                   ELSE (r.count * Scale) \div input.maxPrompts
              /\ r.count = Cardinality(InWindow(output.file, PureTime, input.windowMs))]_vars

\* C26: the count calculateUsage returns is the number of non-empty lines
\* that parse to a timestamp with now - timestamp <= windowMs, wherever they
\* stand in the file; lines that do not parse are left out; a missing file and
\* a file without lines give count 0 and percentage 0.
C26_CountsWindowEntries ==
    [][RunCalculateUsage
       => LET r == output'.usage
          IN  /\ r.count = Cardinality(InWindow(output.file, PureTime, input.windowMs))
              /\ (~output.file.exists \/ output.file.text = <<EmptyLine>>)
                 => r = [count |-> 0, percentage |-> 0]]_vars

\* C27: trimLog leaves in the file exactly the lines that parse to a timestamp
\* at most 2 x windowMs old, in their order; so for windowMs >= 0 and every
\* maxPrompts calculateUsage gives the same result on the file before and
\* after the trim; a missing file stays missing.
C27_TrimKeepsWindow ==
    [][RunTrimLog
       => LET before == output.file
              after == output'.file
              w == input.windowMs
          IN  /\ ~before.exists => after = before
              /\ before.exists
                 => /\ after.exists
                    /\ SplitLines(after.text) =
                         SelectSeq(before.text,
                                   LAMBDA ts : /\ ts # EmptyLine
                                               /\ ts # NaN
                                               /\ PureTime - ts <= 2 * w)
              /\ w >= 0
                 => \A m \in PureMaxPrompts :
                       calculateUsage(ReadLog(after), PureTime, w, m) =
                         calculateUsage(ReadLog(before), PureTime, w, m)]_vars

C27_Witness ==
    /\ input.kind = "usage"
    /\ input.windowMs > 0
    /\ output.trims = 1
    /\ Len(SplitLines(output.file.text)) < Len(SplitLines(input.file.text))
    /\ output.usage # Pending
    /\ Len(SplitLines(output.file.text)) > output.usage.count
    /\ output.usage.count > 0

\* C28: a second trimLog with the same windowMs at the same moment leaves the
\* file as the first one left it.
C28_TrimIdempotent ==
    [][(RunTrimLog /\ output.trims >= 1) => output'.file = output.file]_vars

C28_Witness ==
    /\ input.kind = "usage"
    /\ output.trims = 2
    /\ output.file.text # input.file.text
    /\ SplitLines(output.file.text) # <<>>

\* C29: interpolation on x, y and brightness returns the start value for
\* t <= 0 and the end value for t >= 1, the arithmetic midpoint of start
\* and end at t = 0.5, and always a value between start and end inclusive.
\* (Stated for a numeric t; colours are compared in units of
\* 1 / (Scale * Scale).)
Between(v, a, b) == Min(a, b) <= v /\ v <= Max(a, b)
Interpolates(r, start, end, t, unit) ==
    /\ r # NotANumber
    /\ t <= 0 => r.num = start * unit
    /\ t >= Scale => r.num = end * unit
    /\ t = Scale \div 2 => 2 * r.num = (start + end) * unit
    /\ Between(r.num, start * unit, end * unit)
C29_InterpolationEndpoints ==
    (input.kind = "light" /\ input.t # NaN /\ output.color # Pending)
    => /\ Interpolates(output.color.x, input.start.x, input.end.x, input.t, Scale)
       /\ Interpolates(output.color.y, input.start.y, input.end.y, input.t, Scale)
       /\ Interpolates(output.brightness, input.start.bri, input.end.bri, input.t, 1)
\* The same for the two chromaticity coordinates alone.
C29_ColorOnly ==
    (input.kind = "light" /\ input.t # NaN /\ output.color # Pending)
    => /\ Interpolates(output.color.x, input.start.x, input.end.x, input.t, Scale)
       /\ Interpolates(output.color.y, input.start.y, input.end.y, input.t, Scale)

\* C30: the brightness of a command sent to the bridge is an integer in
\* the device range 1..254, for every configured start and end brightness
\* and every percentage a resolve can give.
C30_BrightnessInRange ==
    output.bri # Pending => output.bri # NotANumber /\ output.bri.num \in 1..254
\* The same for a percentage that is a number.
C30_NumericPercentage ==
    (output.bri # Pending /\ input.t # NaN)
    => output.bri # NotANumber /\ output.bri.num \in 1..254
\* States in which the command's brightness is an end of the device range
\* because of the clamp.
C30_ClampedLow == output.bri = Num(1) /\ output.brightness.num < 0
C30_ClampedHigh == output.bri = Num(254) /\ output.brightness.num > 100

\* A category of a payload that reports a percentage an adapter can read,
\* and that percentage as a fraction.
Reports(e) == e.key \in AdapterKeys
Fraction(raw) == IF raw > Scale THEN raw \div 100 ELSE raw
Reported(d, sub) ==
    { Fraction(d[i].raw) : i \in { j \in DOMAIN d : Reports(d[j]) /\ NameIncludes(d[j].type, sub) } }
NonExtra(d) ==
    { Fraction(d[i].raw) :
        i \in { j \in DOMAIN d : Reports(d[j]) /\ ~NameIncludes(d[j].type, "extra") } }
SetMax(S) == CHOOSE m \in S : \A v \in S : v <= m

C31_MaxOfOthers ==
    /\ input.kind = "payload"
    /\ output.adapter \notin {Pending, Null}
    /\ Cardinality(NonExtra(input.payload)) = 2
    /\ Reported(input.payload, "five_hour") = {}
    /\ Reported(input.payload, "seven_day") = {}
    /\ output.adapter.num = SetMax(NonExtra(input.payload))
C31_ExtraLeftOut ==
    /\ input.kind = "payload"
    /\ output.adapter \notin {Pending, Null}
    /\ \E x \in Reported(input.payload, "extra") : x > output.adapter.num
    /\ NonExtra(input.payload) # {}

\* The payloads that differ from d in the values of seven-day categories
\* only.
RECURSIVE WeeklyVariants(_)
WeeklyVariants(d) ==
    IF d = <<>> THEN {<<>>}
    ELSE LET heads == IF NameIncludes(d[1].type, "seven_day")
                      THEN { [d[1] EXCEPT !.raw = r] : r \in PureRaws }
                      ELSE {d[1]}
         IN  { <<h>> \o rest : h \in heads, rest \in WeeklyVariants(Tail(d)) }

\* C32: for every usage payload of a push or of an adapter, changing only
\* the values of the seven-day categories never changes the percentage that
\* is stored for the light.
C32_WeeklyNeverMatters ==
    input.kind = "payload"
    => /\ output.push # Pending
          => \A d \in WeeklyVariants(input.payload) : StoredByPush(d) = output.push
       /\ output.adapter # Pending
          => \A d \in WeeklyVariants(input.payload) : StoredByAdapter(d) = output.adapter
\* The same for the adapters alone, on payloads that report a five-hour
\* category.
C32_AdapterWithSession ==
    (input.kind = "payload" /\ output.adapter # Pending
       /\ Reported(input.payload, "five_hour") # {})
    => \A d \in WeeklyVariants(input.payload) : StoredByAdapter(d) = output.adapter
\* The same for the adapters alone, on every payload.
C32_AdapterAlone ==
    (input.kind = "payload" /\ output.adapter # Pending)
    => \A d \in WeeklyVariants(input.payload) : StoredByAdapter(d) = output.adapter
\* The same for the push handler alone, on payloads in which it reads a
\* five-hour category.
C32_PushWithSession ==
    (input.kind = "payload" /\ output.push # Pending
       /\ \E i \in DOMAIN input.payload :
             input.payload[i].type = "five_hour" /\ ExtensionPct(input.payload[i]) # Null)
    => \A d \in WeeklyVariants(input.payload) : StoredByPush(d) = output.push

\* The fractions of the categories the push handler reads.
PushReported(d) ==
    { Fraction(d[i].raw) : i \in { j \in DOMAIN d : ExtensionPct(d[j]) # Null } }

\* C33: in the adapters and in the push handler a raw utilization greater
\* than 1 is divided by 100 and a raw value of at most 1 is kept: the stored
\* percentage is the fraction of one of the categories the path reads (of
\* the only one, when there is one).
C33_Normalized ==
    input.kind = "payload"
    => /\ (output.adapter \notin {Pending, Null} /\ NonExtra(input.payload) # {})
          => output.adapter.num \in NonExtra(input.payload)
       /\ output.push \notin {Pending, Null}
          => output.push.num \in PushReported(input.payload)

\* A raw 42 was stored as 0.42 by both paths.
C33_Witness ==
    /\ input.kind = "payload"
    /\ input.payload = <<Cat("five_hour", 42 * Scale)>>
    /\ output.adapter = Num((42 * Scale) \div 100)
    /\ output.push = Num((42 * Scale) \div 100)
\* A raw 0.42, and a raw 1, were stored as they are by both paths.
C33_Kept ==
    /\ input.kind = "payload"
    /\ input.payload = <<Cat("five_hour", (42 * Scale) \div 100)>>
    /\ output.adapter = Num((42 * Scale) \div 100)
    /\ output.push = Num((42 * Scale) \div 100)
C33_KeptOne ==
    /\ input.kind = "payload"
    /\ input.payload = <<Cat("five_hour", Scale)>>
    /\ output.adapter = Num(Scale)
    /\ output.push = Num(Scale)

\* C34: the percentage of the snapshot a push or an adapter stores is in
\* [0,1], for every payload, raw values above 100 and negative ones
\* included.
InUnit(stored) == stored \in {Pending, Null} \/ (0 <= stored.num /\ stored.num <= Scale)
C34_SnapshotInUnit ==
    input.kind = "payload" => InUnit(output.push) /\ InUnit(output.adapter)
\* The same for the payloads whose raw values are all in 0..100.
C34_RawInRange ==
    (/\ input.kind = "payload"
     /\ \A i \in DOMAIN input.payload :
           0 <= input.payload[i].raw /\ input.payload[i].raw <= 100 * Scale)
    => InUnit(output.push) /\ InUnit(output.adapter)

\* C35: the timer's staleness test and the resolver's validity test agree
\* for every snapshot age: whenever the resolver would not use the snapshot
\* because of its age, the poll callback that fires at that moment takes the
\* refresh branch.
C35_StaleTestsAgree ==
    \A p \in Procs :
        (/\ pc[p] = "loop"
         /\ pollTimer[p] = "active"
         /\ running[p]
         /\ remoteUsage[p] # Null
         /\ getUsagePercentage(remoteUsage[p], usageLog, now, config).source = "local")
        => isStale(remoteUsage[p], now)
\* The same for every age but the threshold itself.
C35_AgreeOffThreshold ==
    \A p \in Procs :
        (/\ pc[p] = "loop"
         /\ pollTimer[p] = "active"
         /\ running[p]
         /\ remoteUsage[p] # Null
         /\ now - remoteUsage[p].receivedAt # USAGE_STALE_MS)
        => (getUsagePercentage(remoteUsage[p], usageLog, now, config).source = "local"
              <=> isStale(remoteUsage[p], now))
\* A snapshot older than the threshold, with the timer active.
C35_OlderReached ==
    /\ pc[Daemon] = "loop"
    /\ pollTimer[Daemon] = "active"
    /\ running[Daemon]
    /\ remoteUsage[Daemon] # Null
    /\ now - remoteUsage[Daemon].receivedAt > USAGE_STALE_MS

\* The hook's entries in the file.
HookEntries(file) == Len(SelectSeq(ReadLog(file).lines, LAMBDA l : l = PureTime))

\* C36: across all interleavings of the hook's append with trimLog's read
\* and write, every entry the hook appended that is within 2 x windowMs of
\* now is still in the log after the trim completes.
C36_AppendsSurviveTrim ==
    (input.kind = "race" /\ input.windowMs >= 0 /\ output.held = Pending)
    => HookEntries(output.file) >= output.appended
\* The same when no append fell between a read and its write.
C36_NoRaceNoLoss ==
    (input.kind = "race" /\ input.windowMs >= 0 /\ output.held = Pending /\ ~output.raced)
    => HookEntries(output.file) >= output.appended
\* Two trims and two appends without a race, on a file the trim shortened.
C36_NoRaceReached ==
    /\ input.kind = "race"
    /\ input.windowMs >= 0
    /\ ~output.raced
    /\ output.trims = MaxTrims
    /\ output.appended = MaxAppends
    /\ Len(output.file.text) < Len(input.file.text) + MaxAppends

\* C37: at most one file watcher is armed for the usage log: the start-up
\* arming and the re-arming of every poll callback, overlapping ones
\* included, never create a second watcher while one is armed.
OpenWatchers == { p \in Procs : watcher[p] \in {"armed", "two"} }
C37_OneWatcher ==
    /\ \A p \in Procs : watcher[p] # "two"
    /\ Cardinality(OpenWatchers) <= 1
\* The same for one daemon: its own armings never leave it two watchers.
C37_OnePerDaemon == \A p \in Procs : watcher[p] # "two"
\* Two poll callbacks in flight, both past their updateLight, with the
\* watcher armed.
C37_OverlapReached ==
    /\ watcher[Daemon] = "armed"
    /\ BagCardinality(tick[Daemon]) = MaxTicks
    /\ \A t \in BagToSet(tick[Daemon]) : t.st = "apply"

\* C38: a start that fails because the configuration cannot be loaded fails
\* before any side effect: no PID marker is written and no listener, timer
\* or watcher is created.
C38_LoadFailureLeavesNothing ==
    config = Null
    => \A p \in Procs :
          /\ pidFile # p
          /\ portOwner # p
          /\ httpServer[p] = "null"
          /\ pollTimer[p] = "null"
          /\ watcher[p] = "null"
          /\ ~running[p]
          /\ cmds[p] = EmptyBag

C38_Witness ==
    /\ config = Null
    /\ pc[Daemon] = "exited"
    /\ exitCode[Daemon] = "1"

\* A start without a loadable configuration is about to remove the marker
\* of a dead process.
C38_StaleMarkerFound == config = Null /\ pc[Daemon] = "rmStale" /\ pidFile = DeadPid

\* The answer to GET /status has lastUpdate null exactly while no snapshot is
\* stored, a snapshot once stored is never cleared, and the request changes
\* neither the snapshot nor the light.
C39_LastUpdateAndFrame ==
    [][\A p \in Procs :
          /\ Status(p)
             => /\ (StatusBody(remoteUsage[p]).lastUpdate = Null) <=> (remoteUsage[p] = Null)
                /\ remoteUsage' = remoteUsage
                /\ light' = light
                /\ cmds' = cmds
                /\ tick' = tick
          /\ remoteUsage[p] # Null => remoteUsage'[p] # Null]_vars
\* C39: GET /status reports extensionConnected as true only if the daemon
\* has received a push (so never, where no extension pushes), reports
\* lastUpdate as null exactly when no snapshot has ever been stored, and
\* changes neither the snapshot nor the light.
C39_StatusTruthful ==
    /\ [][\A p \in Procs : Status(p) => ~StatusBody(remoteUsage[p]).extensionConnected]_vars
    /\ C39_LastUpdateAndFrame
\* A status request answered while a snapshot is held, and while none is.
C39_AnsweredWithSnapshot == reply = "status" /\ remoteUsage[Daemon] # Null
C39_AnsweredWithout == reply = "status" /\ remoteUsage[Daemon] = Null /\ pc[Daemon] = "loop"
====
